---- MODULE Spec2Model ----
(***************************************************************************)
(* Model of astrbot_plugin_text2image: the line-oriented markdown parser   *)
(* (core/markdown.py), the emoji/separator segmenter (core/emoji.py) and   *)
(* the line loop of TextRenderer.render (core/renderer.py).                *)
(*                                                                         *)
(* A text is a sequence of characters; a character is a one-element string *)
(* ("a", "|", " ") or the name of its code point ("U5B57" for U+5B57).     *)
(***************************************************************************)
EXTENDS Integers, Sequences, FiniteSets, TLC

\* ------------------------------------------------------------------------
\* Characters
\* ------------------------------------------------------------------------

\* '\n', the separator of text.split('\n') and '\n'.join(...)
NL == "LF"

\* the default label (U+5B57 U+6BB5 and a number) and the full-width colon
\* U+FF1A that ends a label are built from these code points
ZI == "U5B57"
DUAN == "U6BB5"
FWCOLON == "UFF1A"

\* The backtick (U+0060)
BT == "U0060"

\* A base emoji code point, a zero-width joiner and a variation selector
EMOJI == "U1F600"
ZWJ == "U200D"
VS16 == "UFE0F"

DigitChars == <<"0", "1", "2", "3", "4", "5", "6", "7", "8", "9">>

IsDigit(c) == \E i \in 1..10 : DigitChars[i] = c

\* \s of the regular expressions and the characters str.strip() removes
IsSpace(c) == c = " " \/ c = NL

\* \w of the regular expressions
IsWordChar(c) == IsDigit(c) \/ c \in {"a", "b", "c", "p", "y", "_", ZI, DUAN}

\* ------------------------------------------------------------------------
\* Text helpers (what the str methods and the regular expressions compute)
\* ------------------------------------------------------------------------

Drop(t, n) == SubSeq(t, n + 1, Len(t))

Take(t, n) == SubSeq(t, 1, n)

AllIn(t, S) == \A i \in 1..Len(t) : t[i] \in S

AllSpace(t) == \A i \in 1..Len(t) : IsSpace(t[i])

\* the least and the greatest element of a non-empty set of numbers
Least(S) == CHOOSE k \in S : \A j \in S : k <= j

Greatest(S) == CHOOSE k \in S : \A j \in S : k >= j

\* number of white-space characters that start t
LeadingSpaces(t) ==
    IF AllSpace(t) THEN Len(t) ELSE Least({i \in 1..Len(t) : ~IsSpace(t[i])}) - 1

\* str.lstrip()
LStrip(t) == Drop(t, LeadingSpaces(t))

\* str.strip()
Strip(t) ==
    IF AllSpace(t) THEN <<>>
    ELSE SubSeq(t, Least({i \in 1..Len(t) : ~IsSpace(t[i])}), Greatest({i \in 1..Len(t) : ~IsSpace(t[i])}))

\* does text t carry the characters of d at position i (1-based)
HasAt(t, i, d) == i >= 1 /\ i + Len(d) - 1 <= Len(t) /\ SubSeq(t, i, i + Len(d) - 1) = d

\* str.split(sep) for a one-character separator
RECURSIVE Split(_, _)
Split(t, sep) ==
    IF \E i \in 1..Len(t) : t[i] = sep
    THEN <<Take(t, Least({k \in 1..Len(t) : t[k] = sep}) - 1)>>
             \o Split(Drop(t, Least({k \in 1..Len(t) : t[k] = sep})), sep)
    ELSE <<t>>

\* sep.join(parts) for a one-character separator
RECURSIVE Join(_, _)
Join(parts, sep) ==
    IF Len(parts) = 0 THEN <<>>
    ELSE IF Len(parts) = 1 THEN parts[1]
    ELSE parts[1] \o <<sep>> \o Join(Tail(parts), sep)

\* concatenation of a sequence of sequences
RECURSIVE Flatten(_)
Flatten(ss) == IF Len(ss) = 0 THEN <<>> ELSE Head(ss) \o Flatten(Tail(ss))

\* str(n) for n >= 0
RECURSIVE IntToText(_)
IntToText(n) == IF n < 10 THEN <<DigitChars[n + 1]>> ELSE IntToText(n \div 10) \o <<DigitChars[(n % 10) + 1]>>

\* int(digits)
RECURSIVE TextToInt(_)
TextToInt(t) ==
    IF Len(t) = 0 THEN 0
    ELSE 10 * TextToInt(Take(t, Len(t) - 1)) + ((CHOOSE i \in 1..10 : DigitChars[i] = t[Len(t)]) - 1)

\* ------------------------------------------------------------------------
\* Segment model (core/styles.py)
\* ------------------------------------------------------------------------

TextSegment(text) ==
    [text |-> text, is_emoji |-> FALSE, no_wrap |-> FALSE,
     bold |-> FALSE, italic |-> FALSE, code |-> FALSE, strike |-> FALSE,
     heading |-> 0, quote |-> FALSE, code_block |-> FALSE, horizontal_rule |-> FALSE,
     list_item |-> FALSE, list_ordered |-> FALSE, list_level |-> 0, list_index |-> 0,
     list_continuation |-> FALSE]

TableCell(text, segments) == [text |-> text, segments |-> segments]

TableRow(cells, is_header) == [cells |-> cells, is_header |-> is_header]

\* "".join(seg.text for seg in segs): the texts of the segments, in order
SegmentsText(segs) == Flatten([k \in 1..Len(segs) |-> segs[k].text])

\* ------------------------------------------------------------------------
\* Inline style tokenizer (core/markdown.py)
\* ------------------------------------------------------------------------

\* Each pattern is  D(.+?)D  for a delimiter D
INLINE_PATTERNS ==
    << [delim |-> <<"*", "*">>, style |-> "bold"],
       [delim |-> <<"_", "_">>, style |-> "bold"],
       [delim |-> <<"~", "~">>, style |-> "strike"],
       [delim |-> <<BT, BT>>, style |-> "code"],
       [delim |-> <<"*">>, style |-> "italic"],
       [delim |-> <<"_">>, style |-> "italic"],
       [delim |-> <<BT>>, style |-> "code"] >>

\* can  D(.+?)D  match with its opening delimiter at position s
MatchesAt(t, s, d) ==
    HasAt(t, s, d) /\ \E e \in (s + Len(d) + 1)..Len(t) : HasAt(t, e, d)

\* re.search(D(.+?)D, t): start of the leftmost match (0: none)
PatternSearch(t, d) ==
    IF \E s \in 1..Len(t) : MatchesAt(t, s, d)
    THEN Least({s \in 1..Len(t) : MatchesAt(t, s, d)})
    ELSE 0

\* start of the closing delimiter of the match that starts at s: the lazy
\* group takes the nearest one
PatternClose(t, d, s) == Least({e \in (s + Len(d) + 1)..Len(t) : HasAt(t, e, d)})

\* variant of EarliestOf in which the last pattern wins a tie
EarliestOf_LastWins(starts) ==
    IF \A i \in 1..Len(starts) : starts[i] = 0 THEN 0
    ELSE CHOOSE i \in 1..Len(starts) :
             /\ starts[i] > 0
             /\ \A j \in 1..Len(starts) :
                   starts[j] > 0 => (starts[i] < starts[j] \/ (starts[i] = starts[j] /\ i >= j))

\* given where each pattern's leftmost match starts, the pattern whose match
\* starts earliest; the first pattern wins a tie (0: none matches)
EarliestOf(starts) ==
    IF \A i \in 1..Len(starts) : starts[i] = 0 THEN 0
    ELSE CHOOSE i \in 1..Len(starts) :
             /\ starts[i] > 0
             /\ \A j \in 1..Len(starts) :
                   starts[j] > 0 => (starts[i] < starts[j] \/ (starts[i] = starts[j] /\ i <= j))

EarliestPattern(t) ==
    EarliestOf([i \in 1..Len(INLINE_PATTERNS) |-> PatternSearch(t, INLINE_PATTERNS[i].delim)])

_apply_style(segment, style_type) ==
    CASE style_type = "bold" -> [segment EXCEPT !.bold = TRUE]
      [] style_type = "italic" -> [segment EXCEPT !.italic = TRUE]
      [] style_type = "code" -> [segment EXCEPT !.code = TRUE]
      [] style_type = "strike" -> [segment EXCEPT !.strike = TRUE]
      [] OTHER -> segment

\* for seg in inner_segments: _apply_style(seg, style_type)
ApplyStyleAll(inner_segments, style_type) ==
    [i \in 1..Len(inner_segments) |-> _apply_style(inner_segments[i], style_type)]

RECURSIVE _parse_recursive(_)

\* variant of ParseAround that leaves out the text before the match
ParseAround_NoBefore(text, pattern, start, close) ==
    ApplyStyleAll(_parse_recursive(SubSeq(text, start + Len(pattern.delim), close - 1)), pattern.style)
        \o _parse_recursive(Drop(text, close + Len(pattern.delim) - 1))

\* the earliest match is pattern's, from start to the closing delimiter at close:
\* the text before it, the styled inner segments, the parsed rest
ParseAround(text, pattern, start, close) ==
    (IF start > 1 THEN <<TextSegment(Take(text, start - 1))>> ELSE <<>>)
        \o ApplyStyleAll(_parse_recursive(SubSeq(text, start + Len(pattern.delim), close - 1)), pattern.style)
        \o _parse_recursive(Drop(text, close + Len(pattern.delim) - 1))

\* the earliest match is pattern's and starts at start
ParseFrom(text, pattern, start) ==
    ParseAround(text, pattern, start, PatternClose(text, pattern.delim, start))

\* idx: the earliest matching pattern (0: none)
ParseWith(text, idx) ==
    IF idx = 0 THEN <<TextSegment(text)>>
    ELSE ParseFrom(text, INLINE_PATTERNS[idx], PatternSearch(text, INLINE_PATTERNS[idx].delim))

_parse_recursive(text) ==
    IF Len(text) = 0 THEN <<>> ELSE ParseWith(text, EarliestPattern(text))

\* the attributes _merge_segments compares
SameStyle(a, b) ==
    /\ a.heading = b.heading /\ a.quote = b.quote /\ a.code_block = b.code_block
    /\ a.horizontal_rule = b.horizontal_rule
    /\ a.bold = b.bold /\ a.italic = b.italic /\ a.code = b.code /\ a.strike = b.strike
    /\ a.list_item = b.list_item /\ a.list_ordered = b.list_ordered
    /\ a.list_level = b.list_level /\ a.list_index = b.list_index
    /\ a.list_continuation = b.list_continuation

\* variant of CanMerge that does not look at is_emoji
CanMerge_EmojiToo(last, seg) ==
    /\ Len(last.text) > 0 /\ Len(seg.text) > 0
    /\ ~seg.no_wrap /\ ~last.no_wrap
    /\ SameStyle(last, seg)

\* the condition under which seg is appended to the text of last
CanMerge(last, seg) ==
    /\ Len(last.text) > 0 /\ Len(seg.text) > 0
    /\ ~seg.is_emoji /\ ~last.is_emoji
    /\ ~seg.no_wrap /\ ~last.no_wrap
    /\ SameStyle(last, seg)

RECURSIVE MergeInto(_, _)
MergeInto(merged, rest) ==
    IF Len(rest) = 0 THEN merged
    ELSE LET last == merged[Len(merged)]
             seg == Head(rest)
         IN  IF CanMerge(last, seg)
             THEN MergeInto([merged EXCEPT ![Len(merged)].text = last.text \o seg.text], Tail(rest))
             ELSE MergeInto(Append(merged, seg), Tail(rest))

_merge_segments(segments) ==
    IF Len(segments) = 0 THEN <<>> ELSE MergeInto(<<segments[1]>>, Tail(segments))

_parse_inline_styles(text) ==
    IF Len(text) = 0 THEN <<>> ELSE _merge_segments(_parse_recursive(text))

\* ------------------------------------------------------------------------
\* Markdown line parser and table flattener (core/markdown.py)
\* ------------------------------------------------------------------------

LineContext ==
    [in_code_block |-> FALSE, code_block_lang |-> <<>>, code_lines |-> <<>>,
     in_table |-> FALSE, table_rows |-> <<>>, table_header_parsed |-> FALSE]

\* text.strip() == '```'
IsClosingFence(text) == Strip(text) = <<BT, BT, BT>>

\* re.match(r'^```(\w*)\s*$', text): three backticks, word characters, white space
CodeBlockMatch(text) ==
    /\ HasAt(text, 1, <<BT, BT, BT>>)
    /\ \E k \in 3..Len(text) :
          /\ \A i \in 4..k : IsWordChar(text[i])
          /\ \A i \in (k + 1)..Len(text) : IsSpace(text[i])

\* group(1) of the fence pattern: the greedy run of word characters
CodeBlockLang(text) ==
    LET k == CHOOSE n \in 3..Len(text) :
                 /\ \A i \in 4..n : IsWordChar(text[i])
                 /\ (n = Len(text) \/ ~IsWordChar(text[n + 1]))
    IN  SubSeq(text, 4, k)

\* variant of IsRuleLine that asks for four characters
IsRuleLine_Min4(text) ==
    LET t == Strip(text) IN Len(t) >= 4 /\ \A i \in 1..Len(t) : IsSpace(t[i]) \/ t[i] \in {"-", "*", "_"}

\* re.match(r'^[\s\-*_]{3,}\s*$', text.strip())
IsRuleLine(text) ==
    LET t == Strip(text) IN Len(t) >= 3 /\ \A i \in 1..Len(t) : IsSpace(t[i]) \/ t[i] \in {"-", "*", "_"}

\* position of the closing bar of re.match(r'^\|(.+)\|\s*$', text) (0: no match)
TableClose(text) ==
    IF /\ Len(text) >= 3
       /\ text[1] = "|"
       /\ \E p \in 3..Len(text) : text[p] = "|" /\ \A i \in (p + 1)..Len(text) : IsSpace(text[i])
    THEN CHOOSE p \in 3..Len(text) :
             /\ text[p] = "|"
             /\ \A i \in (p + 1)..Len(text) : IsSpace(text[i])
             /\ \A q \in (p + 1)..Len(text) : text[q] # "|"
    ELSE 0

TableMatch(text) == TableClose(text) > 0

\* cells = [c.strip() for c in table_match.group(1).strip().split('|')]
TableCells(text) ==
    LET row_text == Strip(SubSeq(text, 2, TableClose(text) - 1))
        parts == Split(row_text, "|")
    IN  [i \in 1..Len(parts) |-> Strip(parts[i])]

\* re.match(r'^[\s\-:]+$', cell)
IsSeparatorCell(cell) ==
    Len(cell) >= 1 /\ \A i \in 1..Len(cell) : IsSpace(cell[i]) \/ cell[i] \in {"-", ":"}

\* the separator-row test of parse_markdown: it looks at cells[0]
IsSeparatorRow(cells) == IsSeparatorCell(IF Len(cells) > 0 THEN cells[1] ELSE <<>>)

\* what  \s+(.+)$  captures in rest (<<>>: no match): the white space is greedy
\* and gives back one character when nothing else is left for the group
AfterSpaces(rest) ==
    LET n == LeadingSpaces(rest)
    IN  IF n = 0 THEN <<>>
        ELSE IF n < Len(rest) THEN Drop(rest, n)
        ELSE IF n >= 2 THEN <<rest[Len(rest)]>>
        ELSE <<>>

LeadingHashes(text) ==
    IF \E i \in 1..Len(text) : text[i] # "#"
    THEN (CHOOSE i \in 1..Len(text) : text[i] # "#" /\ \A j \in 1..(i - 1) : text[j] = "#") - 1
    ELSE Len(text)

\* re.match(r'^(#{1,6})\s+(.+)$', text)
HeadingMatch(text) ==
    LET n == LeadingHashes(text)
    IN  n >= 1 /\ n <= 6 /\ Len(AfterSpaces(Drop(text, n))) > 0

HeadingLevel(text) == LeadingHashes(text)

HeadingContent(text) == AfterSpaces(Drop(text, LeadingHashes(text)))

\* re.match(r'^(\s*)([*+-])\s+(.+)$', text)
UnorderedMatch(text) ==
    LET n == LeadingSpaces(text)
    IN  /\ n < Len(text)
        /\ text[n + 1] \in {"*", "+", "-"}
        /\ Len(AfterSpaces(Drop(text, n + 1))) > 0

UnorderedContent(text) == AfterSpaces(Drop(text, LeadingSpaces(text) + 1))

\* number of digits that follow the leading white space
DigitRun(text) ==
    LET n == LeadingSpaces(text)
        rest == Drop(text, n)
    IN  IF \E i \in 1..Len(rest) : ~IsDigit(rest[i])
        THEN (CHOOSE i \in 1..Len(rest) : ~IsDigit(rest[i]) /\ \A j \in 1..(i - 1) : IsDigit(rest[j])) - 1
        ELSE Len(rest)

\* re.match(r'^(\s*)(\d+)\.\s+(.+)$', text)
OrderedMatch(text) ==
    LET n == LeadingSpaces(text)
        k == DigitRun(text)
    IN  /\ k >= 1
        /\ n + k < Len(text)
        /\ text[n + k + 1] = "."
        /\ Len(AfterSpaces(Drop(text, n + k + 1))) > 0

OrderedIndex(text) == TextToInt(SubSeq(text, LeadingSpaces(text) + 1, LeadingSpaces(text) + DigitRun(text)))

OrderedContent(text) == AfterSpaces(Drop(text, LeadingSpaces(text) + DigitRun(text) + 1))

\* the default label of column i
DefaultLabel(i) == <<ZI, DUAN>> \o IntToText(i)

StampList(seg, ordered, level, index) ==
    [seg EXCEPT !.list_item = TRUE, !.list_ordered = ordered, !.list_level = level, !.list_index = index]

\* the list attributes _serialize_table writes on a label and on a cell's segments
StampTableItem(seg) == [seg EXCEPT !.list_item = TRUE, !.list_ordered = FALSE, !.list_level = 0]

StampHeading(segs, level) == [i \in 1..Len(segs) |-> [segs[i] EXCEPT !.heading = level]]

StampQuote(segs) == [i \in 1..Len(segs) |-> [segs[i] EXCEPT !.quote = TRUE]]

MaxCols(rows) ==
    IF Len(rows) = 0 THEN 0
    ELSE CHOOSE m \in {Len(rows[i].cells) : i \in 1..Len(rows)} :
             \A i \in 1..Len(rows) : Len(rows[i].cells) <= m

\* the first loop of _serialize_table: the first row flagged is_header while
\* headers is empty supplies the labels, every other row is a data row
RECURSIVE ScanRows(_, _, _)
ScanRows(rows, headers, data_rows) ==
    IF Len(rows) = 0 THEN [headers |-> headers, data_rows |-> data_rows]
    ELSE LET row == Head(rows)
         IN  IF row.is_header /\ Len(headers) = 0
             THEN ScanRows(Tail(rows), [i \in 1..Len(row.cells) |-> row.cells[i].text], data_rows)
             ELSE ScanRows(Tail(rows), headers, Append(data_rows, row))

TableHeaders(rows) ==
    LET scanned == ScanRows(rows, <<>>, <<>>)
    IN  IF Len(scanned.headers) = 0
        THEN [i \in 1..MaxCols(rows) |-> DefaultLabel(i)]
        ELSE scanned.headers

\* variant of TableDataRows that keeps the header row among the data rows
TableDataRows_All(rows) == rows

TableDataRows(rows) ==
    LET scanned == ScanRows(rows, <<>>, <<>>)
    IN  IF Len(scanned.data_rows) = 0 THEN rows ELSE scanned.data_rows

\* the segments of one cell: its label, then its content when it has any text
CellItem(headers, col_idx, cell) ==
    LET field_name == IF col_idx <= Len(headers) THEN headers[col_idx] ELSE DefaultLabel(col_idx)
        label_seg == StampTableItem(TextSegment(field_name \o <<FWCOLON>>))
        cell_content == [i \in 1..Len(cell.segments) |-> StampTableItem(cell.segments[i])]
    IN  IF \E i \in 1..Len(cell_content) : Len(cell_content[i].text) > 0
        THEN <<label_seg>> \o cell_content
        ELSE <<label_seg>>

RowItems(headers, row) == Flatten([c \in 1..Len(row.cells) |-> CellItem(headers, c, row.cells[c])])

\* for row in data_rows: for col_idx, cell in enumerate(row.cells)
TableItems(headers, data_rows) == Flatten([r \in 1..Len(data_rows) |-> RowItems(headers, data_rows[r])])

_serialize_table(ctx) ==
    IF Len(ctx.table_rows) = 0 THEN <<>>
    ELSE TableItems(TableHeaders(ctx.table_rows), TableDataRows(ctx.table_rows))

_parse_line(text) ==
    IF Len(text) = 0 THEN <<>>
    ELSE IF HeadingMatch(text) THEN StampHeading(_parse_inline_styles(HeadingContent(text)), HeadingLevel(text))
    ELSE IF text[1] = ">" THEN StampQuote(_parse_inline_styles(LStrip(Tail(text))))
    ELSE _parse_inline_styles(text)

\* the table part of the state after a table is closed
CloseTable(ctx) == [ctx EXCEPT !.in_table = FALSE, !.table_rows = <<>>, !.table_header_parsed = FALSE]

\* the separator marker put between a flushed table and the line after it
SeparatorMarker == TextSegment(<<>>)

HorizontalRule == [TextSegment(<<>>) EXCEPT !.horizontal_rule = TRUE]

\* cell_segments of a table row
ParseCells(cells) == [i \in 1..Len(cells) |-> TableCell(cells[i], _parse_inline_styles(cells[i]))]

\* a line bracketed by bars, with its cells
TableRowLine(cells, ctx) ==
    IF IsSeparatorRow(cells)
    THEN [segs |-> <<>>, ctx |-> [ctx EXCEPT !.table_header_parsed = TRUE]]
    ELSE [segs |-> <<>>,
          ctx |-> [ctx EXCEPT !.table_rows = Append(ctx.table_rows,
                                                    TableRow(ParseCells(cells), ~ctx.table_header_parsed)),
                              !.in_table = TRUE]]

\* a line that ends the open table: segments is the line parsed by _parse_line
TableEndLine(table_segments, segments, ctx) ==
    [segs |-> IF Len(segments) > 0
              THEN table_segments \o <<SeparatorMarker>> \o segments
              ELSE table_segments,
     ctx |-> CloseTable(ctx)]

\* the list attributes written on every segment of a list line
StampListItem(segments, ordered, level, index) ==
    [i \in 1..Len(segments) |->
        StampList(segments[i], ordered, level, IF ordered THEN index ELSE segments[i].list_index)]

\* parse_markdown(text, ctx): the segments returned and the context left behind
parse_markdown(text, ctx) ==
    IF Len(text) = 0 THEN [segs |-> <<>>, ctx |-> ctx]
    ELSE IF ctx.in_code_block THEN
        IF IsClosingFence(text)
        THEN [segs |-> << [TextSegment(Join(ctx.code_lines, NL)) EXCEPT !.code_block = TRUE, !.no_wrap = TRUE] >>,
              ctx |-> [ctx EXCEPT !.in_code_block = FALSE, !.code_lines = <<>>]]
        ELSE [segs |-> <<>>, ctx |-> [ctx EXCEPT !.code_lines = Append(ctx.code_lines, text)]]
    ELSE IF CodeBlockMatch(text) THEN
        [segs |-> <<>>, ctx |-> [ctx EXCEPT !.in_code_block = TRUE, !.code_block_lang = CodeBlockLang(text)]]
    ELSE IF IsRuleLine(text) THEN
        IF ctx.in_table
        THEN [segs |-> _serialize_table(ctx), ctx |-> CloseTable(ctx)]
        ELSE [segs |-> <<HorizontalRule>>, ctx |-> ctx]
    ELSE IF TableMatch(text) THEN TableRowLine(TableCells(text), ctx)
    ELSE IF ctx.in_table THEN TableEndLine(_serialize_table(ctx), _parse_line(text), ctx)
    ELSE IF HeadingMatch(text) THEN
        [segs |-> StampHeading(_parse_inline_styles(HeadingContent(text)), HeadingLevel(text)), ctx |-> ctx]
    ELSE IF text[1] = ">" THEN
        [segs |-> StampQuote(_parse_inline_styles(LStrip(Tail(text)))), ctx |-> ctx]
    ELSE IF UnorderedMatch(text) THEN
        [segs |-> StampListItem(_parse_inline_styles(UnorderedContent(text)), FALSE, LeadingSpaces(text) \div 2, 0),
         ctx |-> ctx]
    ELSE IF OrderedMatch(text) THEN
        [segs |-> StampListItem(_parse_inline_styles(OrderedContent(text)), TRUE, LeadingSpaces(text) \div 2,
                                OrderedIndex(text)),
         ctx |-> ctx]
    ELSE [segs |-> _parse_inline_styles(text), ctx |-> ctx]

\* parse_table(text): the rows of a code-block text read as a table (<<>>: None).
\* A line is stripped, a blank or separator-like line is skipped, empty cells
\* are dropped, and only a row on the first line is the header.
StripAll(parts) == [k \in 1..Len(parts) |-> Strip(parts[k])]

\* the row of the cells of line i, none when no cell is left
TableLineRow(cells, i) ==
    IF Len(cells) = 0 THEN <<>>
    ELSE <<TableRow([k \in 1..Len(cells) |-> TableCell(cells[k], _parse_inline_styles(cells[k]))], i = 1)>>

\* line i, stripped
TableLineCells(stripped, i) ==
    IF Len(stripped) = 0 \/ \A k \in 1..Len(stripped) : IsSpace(stripped[k]) \/ stripped[k] \in {"|", "-", ":"}
    THEN <<>>
    ELSE TableLineRow(SelectSeq(StripAll(Split(stripped, "|")), LAMBDA c : Len(c) > 0), i)

TableLine(line, i) == TableLineCells(Strip(SelectSeq(line, LAMBDA c : c # "U2502")), i)

TableLines(lines) == Flatten([i \in 1..Len(lines) |-> TableLine(lines[i], i)])

parse_table(text) == TableLines(Split(Strip(text), NL))

\* ------------------------------------------------------------------------
\* Emoji/separator segmenter (core/emoji.py)
\* ------------------------------------------------------------------------

\* code points of EmojiHandler.PATTERN's base classes that the model uses:
\* U+1F600, U+1F468, U+1F469 (pictographs), U+2764 (heart), U+1F3FB (skin tone)
EmojiBaseChars == {EMOJI, "U1F468", "U1F469", "U2764", "U1F3FB"}

\* the optional trailing class: U+200D and U+FE00..U+FE0F
EmojiTrailChars == {ZWJ, VS16}

SEPARATOR_CHARS == {"U2501", "U2500", "U2550", "U2014", "_", "-", "~", "U00B7", "U2022"}

\* length of the run of equal characters that starts text
RunLength(text) ==
    IF \E j \in 1..Len(text) : text[j] # text[1]
    THEN (CHOOSE j \in 1..Len(text) : text[j] # text[1] /\ \A k \in 1..(j - 1) : text[k] = text[1]) - 1
    ELSE Len(text)

RECURSIVE _split_separators(_)

\* variant of _split_separators in which two equal separator characters are atomic
_split_separators_Two(text) ==
    IF Len(text) = 0 THEN <<>>
    ELSE LET j == RunLength(text)
             seg == IF j >= 2 /\ text[1] \in SEPARATOR_CHARS
                    THEN [TextSegment(Take(text, j)) EXCEPT !.no_wrap = TRUE]
                    ELSE TextSegment(Take(text, j))
         IN  <<seg>> \o _split_separators(Drop(text, j))

\* variant of _split_separators that cuts an atomic separator run to three characters
_split_separators_Cut(text) ==
    IF Len(text) = 0 THEN <<>>
    ELSE LET j == RunLength(text)
             seg == IF j >= 3 /\ text[1] \in SEPARATOR_CHARS
                    THEN [TextSegment(Take(text, 3)) EXCEPT !.no_wrap = TRUE]
                    ELSE TextSegment(Take(text, j))
         IN  <<seg>> \o _split_separators(Drop(text, j))

\* text split into its runs of equal characters; a run of three or more of one
\* separator character is atomic
_split_separators(text) ==
    IF Len(text) = 0 THEN <<>>
    ELSE LET j == RunLength(text)
             run == Take(text, j)
             seg == IF j >= 3 /\ text[1] \in SEPARATOR_CHARS
                    THEN [TextSegment(run) EXCEPT !.no_wrap = TRUE]
                    ELSE TextSegment(run)
         IN  <<seg>> \o _split_separators(Drop(text, j))

\* end of the PATTERN match that starts at the base character text[i]
EmojiEnd(text, i) ==
    IF \E j \in (i + 1)..Len(text) : text[j] \notin EmojiTrailChars
    THEN (CHOOSE j \in (i + 1)..Len(text) :
              text[j] \notin EmojiTrailChars /\ \A k \in (i + 1)..(j - 1) : text[k] \in EmojiTrailChars) - 1
    ELSE Len(text)

RECURSIVE split_text(_)
split_text(text) ==
    IF \E i \in 1..Len(text) : text[i] \in EmojiBaseChars
    THEN LET i == CHOOSE k \in 1..Len(text) :
                      text[k] \in EmojiBaseChars /\ \A j \in 1..(k - 1) : text[j] \notin EmojiBaseChars
             e == EmojiEnd(text, i)
         IN  _split_separators(Take(text, i - 1))
                 \o << [TextSegment(SubSeq(text, i, e)) EXCEPT !.is_emoji = TRUE] >>
                 \o split_text(Drop(text, e))
    ELSE _split_separators(text)

\* ------------------------------------------------------------------------
\* Configuration and font metrics (core/renderer.py)
\* ------------------------------------------------------------------------

\* image_scale, padding and font_size as render reads them from the configuration
scale == 2
padding == 24
font_size == 24

real_padding == padding * scale
real_font_size == font_size * scale

\* int(real_font_size * 1.1)
emoji_size == (real_font_size * 11) \div 10

\* max(20, emoji_size)
min_content_width == IF emoji_size > 20 THEN emoji_size ELSE 20

\* NO_LINE_START: U+FF0C U+3002 U+3001 U+FF1B U+FF1A U+FF1F U+FF01 U+FF09
\* U+3011 U+300B U+300D U+300F " ' , . ; : ? ! ) > ] } U+00B7 U+2026 U+2014 U+FF5E
NO_LINE_START ==
    {"UFF0C", "U3002", "U3001", "UFF1B", FWCOLON, "UFF1F", "UFF01", "UFF09",
     "U3011", "U300B", "U300D", "U300F", "U0022", "'", ",", ".", ";", ":", "?", "!",
     ")", ">", "]", "}", "U00B7", "U2026", "U2014", "UFF5E"}

\* characters a CJK font draws one em wide; every other character is half an em
WideChars == {ZI, DUAN, FWCOLON, "UFF0C", "U3002", "U3001", "UFF1B", "UFF1F", "UFF01", "UFF09",
              "U3011", "U300B", "U300D", "U300F", "U2026", "U2014", "UFF5E"} \cup EmojiBaseChars

\* a font is known by its size; the width of the glyph's bounding box
GlyphWidth(size, c) == IF c \in WideChars THEN size ELSE size \div 2

\* _get_char_render_width(font, char, is_bold)
_get_char_render_width(size, char, is_bold) == GlyphWidth(size, char) + (IF is_bold THEN 2 ELSE 0)

RECURSIVE SumSeq(_)
SumSeq(ws) == IF Len(ws) = 0 THEN 0 ELSE Head(ws) + SumSeq(Tail(ws))

\* sum(self._get_char_render_width(font, c) for c in text)
TextRenderWidth(size, text) == SumSeq([i \in 1..Len(text) |-> _get_char_render_width(size, text[i], FALSE)])

\* int(real_font_size * (1.8 - heading * 0.15))
HeadingSize(heading) == (real_font_size * (180 - heading * 15)) \div 100

\* the font a plain segment is measured with: the heading font for a heading;
\* for code the monospace font, which falls back to the base font when none is found
CalcFontSize(seg) == IF seg.heading # 0 THEN HeadingSize(seg.heading) ELSE real_font_size

Max(a, b) == IF a > b THEN a ELSE b

Min(a, b) == IF a < b THEN a ELSE b

_build_line_layout(segments, text_area_width, min_width) ==
    LET quote_bar_width == 3 * scale
        quote_offset == IF \E i \in 1..Len(segments) : segments[i].quote THEN quote_bar_width + 4 * scale ELSE 0
        is_list == \E i \in 1..Len(segments) : segments[i].list_item
        first == IF is_list
                 THEN segments[CHOOSE i \in 1..Len(segments) :
                                   segments[i].list_item /\ \A j \in 1..(i - 1) : ~segments[j].list_item]
                 ELSE TextSegment(<<>>)
        list_ordered == is_list /\ first.list_ordered
        list_level == IF is_list THEN Max(0, first.list_level) ELSE 0
        list_index == IF is_list THEN Max(0, first.list_index) ELSE 0
        list_bullet_text == IF ~is_list THEN <<>>
                            ELSE IF list_ordered THEN IntToText(list_index) \o <<".">>
                            ELSE <<"U2022">>
        list_bullet_width == IF ~is_list THEN 0
                             ELSE TextRenderWidth(real_font_size, list_bullet_text) + GlyphWidth(real_font_size, " ")
        raw_list_indent == list_level * (20 * scale)
        available_for_list == Max(0, text_area_width - quote_offset - list_bullet_width - min_width)
        list_indent == Min(raw_list_indent, available_for_list)
        content_start_offset == quote_offset + list_indent + list_bullet_width
    IN  [quote_bar_width |-> quote_bar_width, quote_offset |-> quote_offset,
         list_ordered |-> list_ordered, list_level |-> list_level, list_index |-> list_index,
         list_bullet_text |-> list_bullet_text, list_bullet_width |-> list_bullet_width,
         list_indent |-> list_indent,
         effective_width |-> Max(1, text_area_width - content_start_offset)]

\* ------------------------------------------------------------------------
\* The line loop of TextRenderer.render (core/renderer.py)
\* ------------------------------------------------------------------------

\* a render item is the tuple (segments, is_empty, is_table, is_hr, table_data)
RenderItem(segments, is_empty, is_table, is_hr, table_data) ==
    [segments |-> segments, is_empty |-> is_empty, is_table |-> is_table, is_hr |-> is_hr,
     table_data |-> table_data]

TextItem(line_segments) == RenderItem(line_segments, FALSE, FALSE, FALSE, <<>>)

\* the emoji sub-segments of one line of a code block
StampCodeLine(emoji_subs) ==
    [i \in 1..Len(emoji_subs) |->
        IF emoji_subs[i].is_emoji
        THEN [emoji_subs[i] EXCEPT !.code_block = FALSE, !.no_wrap = FALSE]
        ELSE [emoji_subs[i] EXCEPT !.code_block = TRUE, !.no_wrap = TRUE]]

CodeLineSegments(code_line) == StampCodeLine(split_text(code_line))

\* for code_line in seg.text.split('\n')
CodeBlockSegments(code_lines) == Flatten([i \in 1..Len(code_lines) |-> CodeLineSegments(code_lines[i])])

\* an emoji sub-segment of a text segment inherits the segment's attributes
Inherit(es, seg) ==
    [es EXCEPT !.bold = seg.bold, !.italic = seg.italic, !.strike = seg.strike,
               !.code = IF es.is_emoji THEN FALSE ELSE seg.code,
               !.heading = seg.heading, !.quote = seg.quote, !.code_block = seg.code_block,
               !.horizontal_rule = seg.horizontal_rule,
               !.list_item = seg.list_item, !.list_ordered = seg.list_ordered,
               !.list_level = seg.list_level, !.list_index = seg.list_index,
               !.list_continuation = seg.list_continuation]

\* the segments render builds from one parsed segment
InheritAll(emoji_subs, seg) == [i \in 1..Len(emoji_subs) |-> Inherit(emoji_subs[i], seg)]

SegmentSubs(seg) ==
    IF seg.code_block THEN CodeBlockSegments(Split(seg.text, NL))
    ELSE IF Len(seg.text) > 0 THEN InheritAll(split_text(seg.text), seg)
    ELSE IF ~seg.is_emoji THEN <<seg>>
    ELSE <<>>

BuildSegments(md_segs) == Flatten([i \in 1..Len(md_segs) |-> SegmentSubs(md_segs[i])])

\* prev_seg.list_continuation = True for every segment of the current line
MarkContinuation(line_segments) ==
    [i \in 1..Len(line_segments) |-> [line_segments[i] EXCEPT !.seg.list_continuation = TRUE]]

\* The wrapping state: the physical lines flushed so far, the current physical
\* line, current_x and list_continuation_active
WrapState == [items |-> <<>>, line_segments |-> <<>>, current_x |-> 0, list_continuation_active |-> FALSE]

\* a wrap before an atomic unit or a character: the current line is flushed,
\* stamped as a continuation when one is already active
FlushWrap(st, list_is_item) ==
    [items |-> Append(st.items,
                      IF list_is_item /\ st.list_continuation_active
                      THEN MarkContinuation(st.line_segments)
                      ELSE st.line_segments),
     line_segments |-> <<>>,
     current_x |-> 0,
     list_continuation_active |-> st.list_continuation_active \/ list_is_item]

\* the flush taken when two characters remain and both would overflow
FlushEarly(st) ==
    [st EXCEPT !.items = Append(st.items, st.line_segments), !.line_segments = <<>>, !.current_x = 0]

\* line_segments.append((seg, w)); current_x += w
AppendSegment(st, seg, w) ==
    [st EXCEPT !.line_segments = Append(st.line_segments, [seg |-> seg, w |-> w]),
               !.current_x = st.current_x + w]

\* an emoji or no_wrap segment of width w
PlaceAtomic(st, seg, w, effective_width, list_is_item) ==
    AppendSegment(IF st.current_x + w > effective_width - 2 /\ st.current_x > 0
                  THEN FlushWrap(st, list_is_item) ELSE st,
                  seg, w)

\* the TextSegment built for one character of seg
CharSegment(seg, char, list_continuation) ==
    [TextSegment(<<char>>) EXCEPT !.bold = seg.bold, !.italic = seg.italic, !.code = seg.code,
                                  !.strike = seg.strike, !.heading = seg.heading, !.quote = seg.quote,
                                  !.list_item = seg.list_item, !.list_ordered = seg.list_ordered,
                                  !.list_level = seg.list_level, !.list_index = seg.list_index,
                                  !.list_continuation = list_continuation]

\* char_width of a character of seg
CharWidth(seg, char) == _get_char_render_width(CalcFontSize(seg), char, seg.bold)

\* need_wrap: the character overflows the line and may start a line
NeedWrap(st, char, char_width, effective_width) ==
    /\ st.current_x + char_width > effective_width - 2
    /\ st.current_x > 0
    /\ char \notin NO_LINE_START

\* the character before the last is moved to the next line with the last one
\* when the two do not fit on the current line
EarlyWrap(st, seg, i, char_width, effective_width) ==
    /\ i = Len(seg.text) - 1
    /\ Len(st.line_segments) > 0
    /\ st.current_x + char_width + CharWidth(seg, seg.text[i + 1]) > effective_width - 2

\* the character is appended to the line the wrap decisions left
AppendChar(st1, seg, char, char_width) ==
    AppendSegment(st1, CharSegment(seg, char, st1.list_continuation_active), char_width)

\* one turn of the character loop: character i (1-based) of seg.text
PlaceChar(st, seg, i, effective_width, list_is_item) ==
    AppendChar(IF NeedWrap(st, seg.text[i], CharWidth(seg, seg.text[i]), effective_width)
               THEN FlushWrap(st, list_is_item)
               ELSE IF EarlyWrap(st, seg, i, CharWidth(seg, seg.text[i]), effective_width)
               THEN FlushEarly(st)
               ELSE st,
               seg, seg.text[i], CharWidth(seg, seg.text[i]))

\* the character loop from character i on.  current_x is never negative: the
\* test has TLC compute the state a turn left before it starts the next turn
RECURSIVE PlaceChars(_, _, _, _, _)
PlaceChars(st, seg, i, effective_width, list_is_item) ==
    IF st.current_x < 0 \/ i > Len(seg.text) THEN st
    ELSE PlaceChars(PlaceChar(st, seg, i, effective_width, list_is_item), seg, i + 1, effective_width, list_is_item)

\* one turn of  for seg in segments
PlaceSegment(st, seg, effective_width, list_is_item) ==
    IF seg.code_block
    THEN [st EXCEPT !.line_segments = Append(st.line_segments,
                                             [seg |-> seg, w |-> TextRenderWidth(real_font_size, seg.text)])]
    ELSE IF seg.is_emoji THEN PlaceAtomic(st, seg, emoji_size, effective_width, list_is_item)
    ELSE IF seg.no_wrap
    THEN PlaceAtomic(st, seg, TextRenderWidth(real_font_size, seg.text), effective_width, list_is_item)
    ELSE PlaceChars(st, seg, 1, effective_width, list_is_item)

RECURSIVE PlaceSegments(_, _, _, _)
PlaceSegments(st, segments, effective_width, list_is_item) ==
    IF st.current_x < 0 \/ Len(segments) = 0 THEN st
    ELSE PlaceSegments(PlaceSegment(st, Head(segments), effective_width, list_is_item),
                       Tail(segments), effective_width, list_is_item)

\* after the loop: what is left on the current line is the last physical line
LastLine(st, list_is_item) ==
    IF Len(st.line_segments) > 0
    THEN Append(st.items,
                IF list_is_item /\ st.list_continuation_active
                THEN MarkContinuation(st.line_segments) ELSE st.line_segments)
    ELSE st.items

\* list_is_item = any(seg.list_item for seg in segments)
ListIsItem(segments) == \E i \in 1..Len(segments) : segments[i].list_item

\* the physical lines of one logical line
WrapLine(segments, text_area_width) ==
    LastLine(PlaceSegments(WrapState, segments,
                           _build_line_layout(segments, text_area_width, min_content_width).effective_width,
                           ListIsItem(segments)),
             ListIsItem(segments))

\* variant of EmptyLineItems that adds the blank item whatever the context
EmptyLineItems_Always(ctx_after) == <<RenderItem(<<>>, TRUE, FALSE, FALSE, <<>>)>>

\* a line for which parse_markdown returned nothing: skipped while a table is
\* open, a blank-line item otherwise
EmptyLineItems(ctx_after) ==
    IF ctx_after.in_table THEN <<>> ELSE <<RenderItem(<<>>, TRUE, FALSE, FALSE, <<>>)>>

\* the render items one input line adds, given what parse_markdown returned
\* for it and the context it left
TextItems(physical) == [i \in 1..Len(physical) |-> TextItem(physical[i])]

\* table_data: what parse_table gave for a first segment that is no_wrap and
\* has text (<<>> when it gave None or was not called)
LineItemsWith(md_segs, ctx_after, text_area_width, table_data) ==
    IF Len(table_data) > 0 THEN <<RenderItem(<<>>, FALSE, TRUE, FALSE, table_data)>>
    ELSE IF Len(md_segs) = 0 THEN EmptyLineItems(ctx_after)
    ELSE TextItems(WrapLine(BuildSegments(md_segs), text_area_width))

LineItems(md_segs, ctx_after, text_area_width) ==
    IF Len(md_segs) > 0 /\ md_segs[1].horizontal_rule
    THEN <<RenderItem(<<>>, FALSE, FALSE, TRUE, <<>>)>>
    ELSE LineItemsWith(md_segs, ctx_after, text_area_width,
                       IF Len(md_segs) > 0 /\ md_segs[1].no_wrap /\ Len(md_segs[1].text) > 0
                       THEN parse_table(md_segs[1].text)
                       ELSE <<>>)

\* ------------------------------------------------------------------------
\* The height pass and the painting pass of TextRenderer.render
\* ------------------------------------------------------------------------

\* The fonts _load_font can return: a scalable font whose ascent and descent
\* add up to its size, one for which they add up to one and a half times its
\* size, and the default font of ImageFont.load_default(), which has one
\* height whatever size is asked for
FontFaces == {"em", "tall", "default"}

\* ascent + descent of the default font
DefaultFontHeight == 12

\* _get_font_height(self._load_font(size), size)
_get_font_height(face, size) ==
    CASE face = "tall" -> (size * 3) \div 2
      [] face = "default" -> DefaultFontHeight
      [] OTHER -> size

\* int(x * line_height) for the default line_height of 1.6
TimesLineHeight(x) == (x * 16) \div 10

\* line_pixel_height = int(real_font_size * line_height)
line_pixel_height == TimesLineHeight(real_font_size)

\* int(line_pixel_height * 0.8): a rule, a line of a code block
CompactHeight == (line_pixel_height * 8) \div 10

\* int(line_pixel_height * 0.5): a blank line
BlankHeight == (line_pixel_height * 5) \div 10

\* the greatest element of a non-empty set of numbers, as max() finds it
MaxOf(S) == CHOOSE m \in S : \A k \in S : k <= m

\* variant of MaxFontHeight that does not look at emoji
MaxFontHeight_NoEmoji(face, segments) ==
    MaxOf({_get_font_height(face, real_font_size)}
          \cup {_get_font_height(face, HeadingSize(segments[i].seg.heading)) :
                   i \in {j \in 1..Len(segments) : segments[j].seg.heading # 0}})

\* max_font_height: the base font height, the font height of every heading
\* segment of the line and, when the line has an emoji, emoji_size
MaxFontHeight(face, segments) ==
    MaxOf({_get_font_height(face, real_font_size)}
          \cup {_get_font_height(face, HeadingSize(segments[i].seg.heading)) :
                   i \in {j \in 1..Len(segments) : segments[j].seg.heading # 0}}
          \cup {emoji_size : i \in {j \in 1..Len(segments) : segments[j].seg.is_emoji}})

\* variant of RaisedHeight that always recomputes the height from the tallest font
RaisedHeight_Always(max_font_height, font_height, line_h) == TimesLineHeight(max_font_height)

\* the line height when a font of the line is taller than the base font:
\* recomputed from the tallest, never below line_pixel_height
RaisedHeight(max_font_height, font_height, line_h) ==
    IF max_font_height > font_height
    THEN Max(TimesLineHeight(max_font_height), line_pixel_height)
    ELSE line_h

\* any(seg.code_block for seg, _ in segments)
IsCodeLine(segments) == \E i \in 1..Len(segments) : segments[i].seg.code_block

\* line_h of the height pass: the compact height of a code line is set first
\* and the raise comes after it
LineHeightCounted(face, segments) ==
    RaisedHeight(MaxFontHeight(face, segments), _get_font_height(face, real_font_size),
                 IF IsCodeLine(segments) THEN CompactHeight ELSE line_pixel_height)

\* variant of LineHeightPainted that leaves out the raise
LineHeightPainted_Base(face, segments) ==
    IF IsCodeLine(segments) THEN CompactHeight ELSE line_pixel_height

\* current_line_height of the painting pass: the raise comes first and the
\* compact height of a code line is set after it
LineHeightPainted(face, segments) ==
    IF IsCodeLine(segments) THEN CompactHeight
    ELSE RaisedHeight(MaxFontHeight(face, segments), _get_font_height(face, real_font_size),
                      line_pixel_height)

\* the characters _wrap_text_segments_for_render places, each with the
\* segment it comes from: segments without text are skipped
CardChars(segments) ==
    Flatten([k \in 1..Len(segments) |->
                [c \in 1..Len(segments[k].text) |-> [char |-> segments[k].text[c], seg |-> segments[k]]]])

\* number of lines _wrap_text_segments_for_render returns: count lines are
\* complete, the current one holds current_len characters
RECURSIVE WrapCount(_, _, _, _, _, _)
WrapCount(chars, i, count, current_len, current_width, max_width) ==
    IF i > Len(chars) THEN (IF count + current_len = 0 THEN 1 ELSE count + (IF current_len > 0 THEN 1 ELSE 0))
    ELSE IF /\ current_len > 0
            /\ current_width + _get_char_render_width(real_font_size, chars[i].char, chars[i].seg.bold) > max_width - 2
            /\ chars[i].char \notin NO_LINE_START
    THEN WrapCount(chars, i + 1, count + 1, 1,
                   _get_char_render_width(real_font_size, chars[i].char, chars[i].seg.bold), max_width)
    ELSE WrapCount(chars, i + 1, count, current_len + 1,
                   current_width + _get_char_render_width(real_font_size, chars[i].char, chars[i].seg.bold),
                   max_width)

\* len(self._wrap_text_segments_for_render(line_segments, font, mono_font, max_width))
WrappedLines(segments, max_width) ==
    IF max_width <= 0 THEN 1 ELSE WrapCount(CardChars(segments), 1, 0, 0, 0, max_width)

\* the label of a cell and, when the cell has text, its segments
CardCellSegments(headers, col_idx, cell) ==
    <<TextSegment((IF col_idx <= Len(headers) THEN headers[col_idx] ELSE DefaultLabel(col_idx)) \o <<FWCOLON>>)>>
        \o (IF Strip(SegmentsText(cell.segments)) # <<>> THEN cell.segments ELSE <<>>)

\* content_width of a card: the text area less the card padding and the bar
CardContentWidth(text_area_width) == Max(1, text_area_width - (10 * scale) * 2 - Max(1, 4 * scale))

\* number of lines of the card of one data row
CardLineCount(headers, row, content_width) ==
    SumSeq([c \in 1..Len(row.cells) |->
               WrappedLines(CardCellSegments(headers, c, row.cells[c]), content_width)])

\* height of the card of one data row: at least one line, and the padding
CardHeight(line_count) == (IF line_count = 0 THEN 1 ELSE line_count) * line_pixel_height + (10 * scale) * 2

\* _calc_table_height(table_data, line_pixel_height, font, real_width, real_padding, scale)
_calc_table_height(table_data, text_area_width) ==
    IF Len(table_data) = 0 THEN line_pixel_height
    ELSE SumSeq([r \in 1..Len(TableDataRows(table_data)) |->
                    CardHeight(CardLineCount(TableHeaders(table_data), TableDataRows(table_data)[r],
                                             CardContentWidth(text_area_width)))])

\* _draw_table(draw, table_data, real_padding, y, ...): the y it returns
_draw_table(table_data, y0, text_area_width) ==
    IF Len(table_data) = 0 THEN y0
    ELSE y0 + SumSeq([r \in 1..Len(TableDataRows(table_data)) |->
                         CardHeight(CardLineCount(TableHeaders(table_data), TableDataRows(table_data)[r],
                                                  CardContentWidth(text_area_width)))])

\* what one render item adds to total_height
ItemHeight(face, item, text_area_width) ==
    IF item.is_hr THEN CompactHeight
    ELSE IF item.is_table THEN _calc_table_height(item.table_data, text_area_width)
    ELSE IF item.is_empty THEN BlankHeight
    ELSE LineHeightCounted(face, item.segments)

\* y after one render item has been painted at y0
PaintedTo(face, item, y0, text_area_width) ==
    IF item.is_hr THEN y0 + CompactHeight
    ELSE IF item.is_table THEN _draw_table(item.table_data, y0, text_area_width)
    ELSE IF item.is_empty THEN y0 + BlankHeight
    ELSE y0 + LineHeightPainted(face, item.segments)

\* total_height after  for ... in render_items  of the height pass
HeightPass(face, items, text_area_width) ==
    SumSeq([k \in 1..Len(items) |-> ItemHeight(face, items[k], text_area_width)])

\* y after  for ... in render_items  of the painting pass, which starts at y0
RECURSIVE PaintPass(_, _, _, _)
PaintPass(face, items, y0, text_area_width) ==
    IF Len(items) = 0 THEN y0
    ELSE PaintPass(face, Tail(items), PaintedTo(face, Head(items), y0, text_area_width), text_area_width)

\* ------------------------------------------------------------------------
\* Inputs and bounds
\* ------------------------------------------------------------------------

\* the most lines one render reads, and the most calls made on one LineContext
MaxLines == 4

\* image_width values: the default, and one narrow enough to wrap short lines
ImageWidths == {375, 120}

\* Input lines.  A line never contains the newline, the full-width colon or a
\* backslash.
FenceLine == <<BT, BT, BT>>
FenceLangLine == <<BT, BT, BT, "p", "y">>
RuleLine == <<"-", "-", "-">>
BlankRuleLine == <<" ", " ", " ">>
PaddedRuleLine == <<" ", "-", " ", "-">>
RowA == <<"|", "a", "|">>
RowAB == <<"|", "b", "*", "a", "*", "|", "c", "|">>
RowEmptyCell == <<"|", "a", "|", "|">>
RowBlankDash == <<"|", " ", "|", "-", "|">>
SepLine == <<"|", "-", "|">>
SepThenText == <<"|", "-", "|", "a", "|">>
QuoteBare == <<">">>
HeadingLine == <<"#", " ", "a">>
UnorderedLine == <<"-", " ", "a">>
OrderedLine == <<"1", ".", " ", "a">>
InlineLine == <<"*", "a", "*", "b">>

Lines ==
    {<<>>, FenceLine, FenceLangLine, RuleLine, BlankRuleLine, PaddedRuleLine, RowA, RowAB, RowEmptyCell,
     RowBlankDash, SepLine, SepThenText, QuoteBare, HeadingLine, UnorderedLine, OrderedLine,
     InlineLine}

\* the lines render is run on
RenderLines == {<<>>, FenceLine, RuleLine, RowA, RowAB, SepLine, QuoteBare, UnorderedLine, InlineLine}

\* ------------------------------------------------------------------------
\* State
\* ------------------------------------------------------------------------

VARIABLES
    image_width,    \* the configured image_width
    ctx,            \* the LineContext
    render_items,   \* render's render_items
    line,           \* the line handed to the last parse_markdown call
    md_segments,    \* what that call returned
    added,          \* how many render items the last line added
    n,              \* lines read, or calls made on ctx, so far
    pc,             \* "call": parse_markdown called directly;
                    \* "lines": render in its line loop; "done": render past it
    font_face,      \* the font the font directory provides
    total_height,   \* render's total_height once the height pass has run
    y,              \* render's y once the painting pass has run
    _cache,         \* per handler, the keys of its memory cache
    _failed,        \* per handler, the time of the recorded failure of each emoji
    disk,           \* the keys of the files in the cache directory
    clock,          \* time.time()
    returned        \* the last render_emoji call and what it did

\* the state of the two passes of render that follow the line loop
paint_vars == <<font_face, total_height, y>>

\* the state of the emoji handlers and of what they share
emoji_vars == <<_cache, _failed, disk, clock, returned>>

vars == <<image_width, ctx, render_items, line, md_segments, added, n, pc, paint_vars, emoji_vars>>

\* real_width - real_padding * 2
text_area_width == image_width * scale - real_padding * 2

\* The emoji handlers that share one cache directory, the emoji they are asked
\* for and the sizes they are asked for
Handlers == {"h1", "h2"}
Emojis == {EMOJI}
EmojiSizes == {52, 64}

\* cache_key: an emoji at a size
CacheKeys == [emoji : Emojis, size : EmojiSizes]

\* no failure recorded for an emoji; no render_emoji call made yet
NoFailure == -1
NoCall == [handler |-> "none", emoji |-> "", size |-> 0, image |-> FALSE, requested |-> FALSE]

\* render has not reached its passes: the font is the one whose height is its size
NoPasses ==
    /\ font_face = "em"
    /\ total_height = 0
    /\ y = 0

\* EmojiHandler.__init__ for every handler, on an empty cache directory
NoEmojiCalls ==
    /\ _cache = [h \in Handlers |-> {}]
    /\ _failed = [h \in Handlers |-> [e \in Emojis |-> NoFailure]]
    /\ disk = {}
    /\ clock = 0
    /\ returned = NoCall

\* ------------------------------------------------------------------------
\* parse_markdown called line by line on one LineContext
\* ------------------------------------------------------------------------

Init ==
    /\ image_width = 375
    /\ ctx = LineContext
    /\ render_items = <<>>
    /\ line = <<>>
    /\ md_segments = <<>>
    /\ added = 0
    /\ n = 0
    /\ pc = "call"
    /\ NoPasses
    /\ NoEmojiCalls

\* what a call leaves: the line read, the segments returned and the context
Parsed(text, r) ==
    /\ line' = text
    /\ md_segments' = r.segs
    /\ ctx' = r.ctx

\* segments = parse_markdown(text, ctx)
ParseCall ==
    /\ pc = "call"
    /\ n < MaxLines
    /\ \E text \in Lines : Parsed(text, parse_markdown(text, ctx))
    /\ n' = n + 1
    /\ UNCHANGED <<image_width, render_items, added, pc, paint_vars, emoji_vars>>

\* ctx = LineContext(): the caller starts over with a fresh context
NewContext ==
    /\ pc = "call"
    /\ n > 0
    /\ ctx' = LineContext
    /\ line' = <<>>
    /\ md_segments' = <<>>
    /\ n' = 0
    /\ UNCHANGED <<image_width, render_items, added, pc, paint_vars, emoji_vars>>

Next == ParseCall \/ NewContext

Spec == Init /\ [][Next]_vars

\* ------------------------------------------------------------------------
\* TextRenderer.render
\* ------------------------------------------------------------------------

RenderInit ==
    /\ image_width \in ImageWidths
    /\ ctx = LineContext
    /\ render_items = <<>>
    /\ line = <<>>
    /\ md_segments = <<>>
    /\ added = 0
    /\ n = 0
    /\ pc = "lines"
    /\ NoPasses
    /\ NoEmojiCalls

\* render_items.append(...) for every item the line adds
Appended(items) ==
    /\ render_items' = render_items \o items
    /\ added' = Len(items)

\* the rest of a turn once parse_markdown has returned r
Rendered(text, r) ==
    /\ Parsed(text, r)
    /\ Appended(LineItems(r.segs, r.ctx, text_area_width))

\* one turn of  for line in lines
RenderLine ==
    /\ pc = "lines"
    /\ n < MaxLines
    /\ \E text \in RenderLines : Rendered(text, parse_markdown(text, ctx))
    /\ n' = n + 1
    /\ UNCHANGED <<image_width, pc, paint_vars, emoji_vars>>

\* the line loop ends (text.split('\n') has at least one line), the height
\* pass adds up total_height and the painting pass moves y down from real_padding
RenderLinesEnd ==
    /\ pc = "lines"
    /\ n >= 1
    /\ pc' = "done"
    /\ total_height' = HeightPass(font_face, render_items, text_area_width)
    /\ y' = PaintPass(font_face, render_items, real_padding, text_area_width)
    /\ UNCHANGED <<image_width, ctx, render_items, line, md_segments, added, n, font_face, emoji_vars>>

RenderNext == RenderLine \/ RenderLinesEnd

RenderSpec == RenderInit /\ [][RenderNext]_vars

\* ------------------------------------------------------------------------
\* The tokenizer, the merger and the segmenter called on their own
\* ------------------------------------------------------------------------

\* the longest enumerated text and the longest enumerated segment list
MaxTextLen == 5
MaxSegments == 3

\* every sequence over S of at most k elements
SeqsUpTo(S, k) == UNION {[1..m -> S] : m \in 0..k}

\* the characters of the enumerated texts: a letter and the delimiters of the
\* inline patterns; a letter, a separator, an emoji and a joiner
InlineChars == {"a", "*", "_", BT}
SplitChars == {"a", "-", EMOJI, ZWJ}

\* texts too long to be enumerated: nested and adjacent styles, a strike,
\* a family emoji (man, joiner, woman, variation selector), unequal separators
BoldAroundItalic == <<"*", "*", "a", " ", "*", "b", "*", " ", "c", "*", "*">>
ItalicTwice == <<"*", "a", "*", "*", "b", "*">>
CodeTwice == <<BT, "a", BT, BT, "b", BT>>
StrikeText == <<"~", "~", "a", "~", "~">>
StrikeAroundBold == <<"~", "~", "*", "*", "a", "*", "*", "~", "~">>
FamilyEmoji == <<"U1F468", ZWJ, "U1F469", VS16>>
MixedSeparators == <<"-", "-", "_", "_", "_">>

ExampleTexts ==
    {BoldAroundItalic, ItalicTwice, CodeTwice, StrikeText, StrikeAroundBold, FamilyEmoji, MixedSeparators}

Texts == SeqsUpTo(InlineChars, MaxTextLen) \cup SeqsUpTo(SplitChars, MaxTextLen) \cup ExampleTexts

\* segments a caller can hand to _merge_segments: plain, styled, stamped as a
\* list item, an emoji, an atomic separator run, an empty-text placeholder
SegmentChoices ==
    { TextSegment(<<"a">>),
      _apply_style(TextSegment(<<"b">>), "bold"),
      StampList(TextSegment(<<"c">>), FALSE, 0, 0),
      [TextSegment(<<EMOJI>>) EXCEPT !.is_emoji = TRUE],
      [TextSegment(<<"-", "-", "-">>) EXCEPT !.no_wrap = TRUE],
      TextSegment(<<>>) }

SegmentLists == SeqsUpTo(SegmentChoices, MaxSegments)

\* a text or a segment list is given, no function called yet
FunctionInit ==
    /\ image_width = 375
    /\ ctx = LineContext
    /\ render_items = <<>>
    /\ added = 0
    /\ n = 0
    /\ NoPasses
    /\ NoEmojiCalls
    /\ \/ line \in Texts /\ md_segments = <<>> /\ pc = "text"
       \/ line = <<>> /\ md_segments \in SegmentLists /\ pc = "segments"

\* what a call leaves: its result and the function that returned it
Returned(segments, name) ==
    /\ md_segments' = segments
    /\ pc' = name
    /\ UNCHANGED <<image_width, ctx, render_items, line, added, n, paint_vars, emoji_vars>>

\* _parse_recursive(line)
RecursiveCall == pc = "text" /\ Returned(_parse_recursive(line), "recursive")

\* _parse_inline_styles(line)
InlineCall == pc = "text" /\ Returned(_parse_inline_styles(line), "inline")

\* EmojiHandler.split_text(line)
SplitCall == pc = "text" /\ Returned(split_text(line), "split")

\* _merge_segments(md_segments), on a given list or on what _parse_recursive
\* returned (the second statement of _parse_inline_styles)
MergeCall == pc \in {"segments", "recursive"} /\ Returned(_merge_segments(md_segments), "merged")

FunctionNext == RecursiveCall \/ InlineCall \/ SplitCall \/ MergeCall

FunctionSpec == FunctionInit /\ [][FunctionNext]_vars

\* ------------------------------------------------------------------------
\* TextRenderer.render of a one-line text on a narrow image
\* ------------------------------------------------------------------------

\* the longest enumerated line body
MaxBodyLen == 5

\* image widths on which a short line wraps: 72 and 144 pixels of text area
NarrowWidths == {84, 120}

\* a letter, two half-width characters of NO_LINE_START and an emoji
LayoutChars == {"a", ",", ";", EMOJI}

\* the marker of an unordered list item
ListPrefix == <<"-", " ">>

\* list items one and two levels deep, unordered and ordered
IndentedItems ==
    { <<" ", " ", "-", " ", "a">>, <<" ", " ", " ", " ", "-", " ", "a">>,
      <<"1", ".", " ", "a">>, <<" ", " ", " ", " ", "1", ".", " ", "a">> }

\* a plain line or a list item
LayoutLines ==
    {prefix \o body : prefix \in {<<>>, ListPrefix}, body \in SeqsUpTo(LayoutChars, MaxBodyLen)}
        \cup IndentedItems

LayoutInit ==
    /\ image_width \in NarrowWidths
    /\ ctx = LineContext
    /\ render_items = <<>>
    /\ line = <<>>
    /\ md_segments = <<>>
    /\ added = 0
    /\ n = 0
    /\ pc = "lines"
    /\ NoPasses
    /\ NoEmojiCalls

\* the one turn of  for line in lines
LayoutLine ==
    /\ pc = "lines"
    /\ n = 0
    /\ \E text \in LayoutLines : Rendered(text, parse_markdown(text, ctx))
    /\ n' = n + 1
    /\ UNCHANGED <<image_width, pc, paint_vars, emoji_vars>>

LayoutNext == LayoutLine \/ RenderLinesEnd

LayoutSpec == LayoutInit /\ [][LayoutNext]_vars

\* ------------------------------------------------------------------------
\* TextRenderer.render of a short text, with the fonts the font directory
\* can provide
\* ------------------------------------------------------------------------

\* the longest enumerated text, in lines
MaxPaintLines == 4

\* a level-1 heading with an emoji, a level-6 heading (set in a font smaller
\* than the base font), an emoji, a letter; a table row, which inside a fence
\* makes the code block a table item
HeadingEmojiLine == <<"#", " ", "a", EMOJI>>
SmallHeadingLine == <<"#", "#", "#", "#", "#", "#", " ", "a">>

PaintLines == {<<>>, FenceLine, RuleLine, RowAB, HeadingEmojiLine, SmallHeadingLine, <<EMOJI>>, <<"a">>}

PaintInit ==
    /\ image_width = 375
    /\ ctx = LineContext
    /\ render_items = <<>>
    /\ line = <<>>
    /\ md_segments = <<>>
    /\ added = 0
    /\ n = 0
    /\ pc = "lines"
    /\ font_face \in FontFaces
    /\ total_height = 0
    /\ y = 0
    /\ NoEmojiCalls

\* one turn of  for line in lines
PaintLine ==
    /\ pc = "lines"
    /\ n < MaxPaintLines
    /\ \E text \in PaintLines : Rendered(text, parse_markdown(text, ctx))
    /\ n' = n + 1
    /\ UNCHANGED <<image_width, pc, paint_vars, emoji_vars>>

PaintNext == PaintLine \/ RenderLinesEnd

PaintSpec == PaintInit /\ [][PaintNext]_vars

\* ------------------------------------------------------------------------
\* EmojiHandler.render_emoji called on handlers that share one cache directory
\* ------------------------------------------------------------------------

\* self._failed_ttl, in ticks of the clock (the constructor takes any value)
failed_ttl == 2

\* how far the clock runs and how many calls are made
MaxClock == 3
MaxCalls == 4

\* cache_key
CacheKey(emoji, size) == [emoji |-> emoji, size |-> size]

\* what a call did: whether it returned a bitmap (not None), whether it opened
\* a URL
Call(h, emoji, size, image, requested) ==
    [handler |-> h, emoji |-> emoji, size |-> size, image |-> image, requested |-> requested]

\* a test of the failure record that never lets it expire
WithinTtl_Always(failed_time, now) == TRUE

\* time.time() - failed_time < self._failed_ttl
WithinTtl(failed_time, now) == now - failed_time < failed_ttl

\* emoji in self._failed
HasFailed(h, emoji) == _failed[h][emoji] # NoFailure

\* step 2 returns None: a failure is recorded and its TTL has not run out
FailureHit(h, emoji) ==
    /\ HasFailed(h, emoji)
    /\ WithinTtl(_failed[h][emoji], clock)

\* del self._failed[emoji], when step 2 found an expired record
FailedAfterCheck(h, emoji) ==
    IF HasFailed(h, emoji) THEN [_failed EXCEPT ![h][emoji] = NoFailure] ELSE _failed

\* render_emoji(emoji, size) on handler h; online: one of the URLs answers with
\* the bitmap; saved: img.save on the cache file succeeds.  The cache
\* directory holds only files a save has completed, so a file that exists
\* can be read.
render_emoji(h, emoji, size, online, saved) ==
    IF CacheKey(emoji, size) \in _cache[h]
    THEN \* 1. memory cache
         /\ returned' = Call(h, emoji, size, TRUE, FALSE)
         /\ UNCHANGED <<_cache, _failed, disk>>
    ELSE IF FailureHit(h, emoji)
    THEN \* 2. failure record within its TTL
         /\ returned' = Call(h, emoji, size, FALSE, FALSE)
         /\ UNCHANGED <<_cache, _failed, disk>>
    ELSE IF CacheKey(emoji, size) \in disk
    THEN \* 4. disk cache
         /\ _failed' = FailedAfterCheck(h, emoji)
         /\ _cache' = [_cache EXCEPT ![h] = @ \cup {CacheKey(emoji, size)}]
         /\ returned' = Call(h, emoji, size, TRUE, FALSE)
         /\ UNCHANGED disk
    ELSE IF online
    THEN \* 5. download
         /\ _failed' = FailedAfterCheck(h, emoji)
         /\ _cache' = [_cache EXCEPT ![h] = @ \cup {CacheKey(emoji, size)}]
         /\ disk' = IF saved THEN disk \cup {CacheKey(emoji, size)} ELSE disk
         /\ returned' = Call(h, emoji, size, TRUE, TRUE)
    ELSE \* 6. every URL failed
         /\ _failed' = [_failed EXCEPT ![h][emoji] = clock]
         /\ returned' = Call(h, emoji, size, FALSE, TRUE)
         /\ UNCHANGED <<_cache, disk>>

EmojiInit ==
    /\ image_width = 375
    /\ ctx = LineContext
    /\ render_items = <<>>
    /\ line = <<>>
    /\ md_segments = <<>>
    /\ added = 0
    /\ n = 0
    /\ pc = "emoji"
    /\ NoPasses
    /\ NoEmojiCalls

\* one render_emoji call
RenderEmoji ==
    /\ pc = "emoji"
    /\ n < MaxCalls
    /\ \E h \in Handlers, emoji \in Emojis, size \in EmojiSizes, online \in BOOLEAN, saved \in BOOLEAN :
           render_emoji(h, emoji, size, online, saved)
    /\ n' = n + 1
    /\ UNCHANGED <<image_width, ctx, render_items, line, md_segments, added, pc, paint_vars, clock>>

\* time passes between two calls
Tick ==
    /\ pc = "emoji"
    /\ clock < MaxClock
    /\ clock' = clock + 1
    /\ UNCHANGED <<image_width, ctx, render_items, line, md_segments, added, n, pc, paint_vars, _cache, _failed, disk, returned>>

EmojiNext == RenderEmoji \/ Tick

EmojiSpec == EmojiInit /\ [][EmojiNext]_vars

\* ------------------------------------------------------------------------
\* Properties
\* ------------------------------------------------------------------------

\* a step that is one parse_markdown call on ctx
IsParseCall == pc = "call" /\ n' = n + 1

\* a step that is one turn of render's line loop
IsRenderLine == pc = "lines" /\ n' = n + 1

\* a label segment of a flattened table: no input line contains the full-width colon
IsLabel(seg) == seg.list_item /\ Len(seg.text) > 0 /\ seg.text[Len(seg.text)] = FWCOLON

NumLabels(segs) == Cardinality({i \in 1..Len(segs) : IsLabel(segs[i])})

\* the render items the last line added
NewItems == SubSeq(render_items, Len(render_items) - added + 1, Len(render_items))

\* C1: when the input ends while a table or a fence is still open, the buffered
\* block has been flushed into the render output and the carry state is reset:
\* once render is past its line loop nothing is left in the buffers.
C1_FlushedAtEnd ==
    pc = "done" =>
        /\ ~ctx.in_table /\ Len(ctx.table_rows) = 0
        /\ ~ctx.in_code_block /\ Len(ctx.code_lines) = 0

\* C2: inside a fence every line that is not a closing fence is buffered
\* verbatim and nothing is emitted for it; the closing fence emits exactly one
\* code_block, no_wrap segment whose text is the buffered lines joined by
\* newlines, and leaves the fence buffer empty.
C2_FenceBuffersEveryLine ==
    [][ (IsParseCall /\ ctx.in_code_block) =>
            IF IsClosingFence(line')
            THEN /\ Len(md_segments') = 1
                 /\ md_segments'[1].text = Join(ctx.code_lines, NL)
                 /\ md_segments'[1].code_block /\ md_segments'[1].no_wrap
                 /\ ~ctx'.in_code_block /\ ctx'.code_lines = <<>>
            ELSE /\ md_segments' = <<>>
                 /\ ctx'.code_lines = Append(ctx.code_lines, line') ]_vars

\* C3: the carry state is one mode out of plain, in-fence and in-table:
\* in_code_block and in_table are never both true.
C3_SingleMode == ~(ctx.in_code_block /\ ctx.in_table)

\* C4: with a table open, a non-empty line that is no table row, no fence and
\* no rule returns the flattened table segments, then exactly one separator
\* marker, then the segments of the line re-parsed without list handling, and
\* the table is closed with an empty row buffer.
C4_TableThenMarkerThenLine ==
    [][ (/\ IsParseCall /\ ctx.in_table
         /\ Len(line') > 0
         /\ ~TableMatch(line') /\ ~CodeBlockMatch(line') /\ ~IsClosingFence(line') /\ ~IsRuleLine(line')) =>
            /\ ~ctx'.in_table /\ ctx'.table_rows = <<>>
            /\ \E k \in 2..Len(md_segments') :
                  /\ md_segments'[k] = SeparatorMarker
                  /\ \A i \in 1..(k - 1) : md_segments'[i].list_item
                  /\ \A i \in (k + 1)..Len(md_segments') :
                        ~md_segments'[i].list_item /\ md_segments'[i] # SeparatorMarker ]_vars

\* the characters a rule line is made of
RuleChars == {" ", "-", "*", "_"}

\* handled as a rule: the flattened table alone when a table was open, one
\* horizontal_rule segment and an unchanged context otherwise
HandledAsRule(before, after, segs) ==
    IF before.in_table
    THEN /\ Len(segs) > 0
         /\ \A i \in 1..Len(segs) : segs[i].list_item /\ ~segs[i].horizontal_rule
         /\ ~after.in_table /\ after.table_rows = <<>>
    ELSE /\ Len(segs) = 1
         /\ segs[1].horizontal_rule /\ segs[1].text = <<>>
         /\ after = before

\* C5 as stated: outside a fence every line of three or more characters drawn
\* only from space, '-', '*' and '_' is handled as a rule.
C5_EveryRuleCharLine ==
    [][ (IsParseCall /\ ~ctx.in_code_block /\ Len(line') >= 3 /\ AllIn(line', RuleChars)) =>
            HandledAsRule(ctx, ctx', md_segments') ]_vars

\* C5 (amended): outside a fence every line whose text, once leading and
\* trailing white space is stripped, has three or more characters drawn only
\* from space, '-', '*' and '_' is handled as a rule: one horizontal_rule
\* segment with empty text when no table is open, only the flattened table
\* segments (no rule marker) and a closed table when one is open.
C5_StrippedRuleLine ==
    [][ (IsParseCall /\ ~ctx.in_code_block /\ Len(Strip(line')) >= 3 /\ AllIn(Strip(line'), RuleChars)) =>
            HandledAsRule(ctx, ctx', md_segments') ]_vars

\* a rule line padded with a space has closed an open table
C5_Witness ==
    /\ pc = "call" /\ n >= 2 /\ line = PaddedRuleLine
    /\ ~ctx.in_table /\ ~ctx.in_code_block
    /\ Len(md_segments) > 0 /\ md_segments[1].list_item

\* C6: a bracketed line is a header separator row (header marked as parsed,
\* nothing buffered, nothing emitted) exactly when every one of its cells is
\* made of space, '-' and ':' only; any other bracketed line is buffered as a
\* row and opens the table.
C6_SeparatorIffEveryCell ==
    [][ (IsParseCall /\ ~ctx.in_code_block /\ TableMatch(line')) =>
            LET cells == TableCells(line')
            IN  /\ md_segments' = <<>>
                /\ IF \A i \in 1..Len(cells) : IsSeparatorCell(cells[i])
                   THEN ctx'.table_header_parsed /\ ctx'.table_rows = ctx.table_rows
                   ELSE ctx'.in_table /\ Len(ctx'.table_rows) = Len(ctx.table_rows) + 1 ]_vars

\* C7: an empty line returns no segment and leaves the whole LineContext as it
\* was; while a table is open the renderer adds no item for it.
C7_EmptyLineFrame ==
    [][ (IsRenderLine /\ line' = <<>>) =>
            /\ md_segments' = <<>>
            /\ ctx' = ctx
            /\ (ctx.in_table => render_items' = render_items) ]_vars

\* an empty line was read while a table with a buffered row was open
C7_Witness ==
    /\ pc = "lines" /\ n >= 2 /\ line = <<>>
    /\ ctx.in_table /\ Len(ctx.table_rows) > 0
    /\ added = 0

\* C8: what the claim says a table with a header row flattens to: for every
\* data row in order and every cell in column order, the label of the column
\* (the header's, or the default label past the header's last column), then
\* the cell's segments, all stamped as items of an unordered list of level 0.
C8_ListStamp(seg) == [seg EXCEPT !.list_item = TRUE, !.list_ordered = FALSE, !.list_level = 0]

C8_Cell(header, cell, c) ==
    LET name == IF c <= Len(header.cells) THEN header.cells[c].text ELSE <<ZI, DUAN>> \o IntToText(c)
    IN  <<C8_ListStamp(TextSegment(name \o <<FWCOLON>>))>>
            \o (IF Len(cell.text) = 0 THEN <<>>
                ELSE [i \in 1..Len(cell.segments) |-> C8_ListStamp(cell.segments[i])])

C8_Expected(rows) ==
    Flatten([r \in 1..(Len(rows) - 1) |->
                Flatten([c \in 1..Len(rows[r + 1].cells) |-> C8_Cell(rows[1], rows[r + 1].cells[c], c)])])

\* C8: flattening a table whose first row is flagged header and that has a data
\* row emits exactly those segments (before the marker and the segments of the
\* line that ended the table); the header row itself is not emitted.
C8_HeaderTableFlattened ==
    [][ (/\ IsParseCall /\ ctx.in_table /\ ~ctx'.in_table
         /\ Len(ctx.table_rows) >= 2 /\ ctx.table_rows[1].is_header) =>
            LET expected == C8_Expected(ctx.table_rows)
            IN  /\ Len(md_segments') >= Len(expected)
                /\ SubSeq(md_segments', 1, Len(expected)) = expected
                /\ NumLabels(md_segments') = NumLabels(expected)
                /\ (IsRuleLine(line') => md_segments' = expected) ]_vars

\* a rule has flattened the header "b*a*", "c" with the data rows "a", "" and
\* "b*a*", "c": the empty cell gave its label only
C8_Witness ==
    /\ pc = "call" /\ line = RuleLine /\ ~ctx.in_table
    /\ Len(md_segments) = 8
    /\ md_segments[1].text = <<"b", "*", "a", "*", FWCOLON>>
    /\ md_segments[2].text = <<"a">>
    /\ md_segments[3].text = <<"c", FWCOLON>>
    /\ md_segments[4].text = <<"b", "*", "a", "*", FWCOLON>>
    /\ md_segments[6].italic /\ md_segments[6].list_item
    /\ md_segments[8].text = <<"c">>

\* C9: a row whose cell count differs from the header's is not rejected: every
\* cell past the header's last column is emitted under the default label of
\* its column, and every column the row lacks still gets a label segment.
C9_UnevenRowsLabelled ==
    [][ (/\ IsParseCall /\ ctx.in_table /\ ~ctx'.in_table
         /\ Len(ctx.table_rows) >= 2 /\ ctx.table_rows[1].is_header) =>
            LET rows == ctx.table_rows
                width == Len(rows[1].cells)
            IN  /\ NumLabels(md_segments')
                       = SumSeq([r \in 1..(Len(rows) - 1) |-> Max(Len(rows[r + 1].cells), width)])
                /\ \A r \in 2..Len(rows) : \A c \in (width + 1)..Len(rows[r].cells) :
                       \E i \in 1..Len(md_segments') :
                           md_segments'[i].text = <<ZI, DUAN>> \o IntToText(c) \o <<FWCOLON>> ]_vars

\* the bullet of a physical line is painted when the line holds a list item
\* and none of its segments is a continuation
PaintsBullet(item) ==
    /\ \E i \in 1..Len(item.segments) : item.segments[i].seg.list_item
    /\ \A i \in 1..Len(item.segments) : ~item.segments[i].seg.list_continuation

ColonCount(item) == Cardinality({i \in 1..Len(item.segments) : item.segments[i].seg.text = <<FWCOLON>>})

\* C10: after a table is flushed each label: value pair is laid out as its own
\* list item: no physical line holds the labels of two cells, and as many
\* bullets are painted as there are pairs.
C10_OneItemPerPair ==
    (pc = "lines" /\ n > 0 /\ NumLabels(md_segments) > 0) =>
        /\ \A i \in 1..Len(NewItems) : ColonCount(NewItems[i]) <= 1
        /\ Cardinality({i \in 1..Len(NewItems) : PaintsBullet(NewItems[i])}) = NumLabels(md_segments)

\* the segments a render item carries: the segments of its physical line, or
\* the segments of the cells of its table
CellSegments(cells) == Flatten([c \in 1..Len(cells) |-> cells[c].segments])

RowSegments(table_data) == Flatten([r \in 1..Len(table_data) |-> CellSegments(table_data[r].cells)])

ItemSegments(item) ==
    IF item.is_table THEN RowSegments(item.table_data)
    ELSE [i \in 1..Len(item.segments) |-> item.segments[i].seg]

\* a segment made from the content of a fence: code without inline styling, or
\* an emoji demoted to a plain, wrappable segment
IsFenceSegment(seg) ==
    \/ seg.code_block /\ ~seg.bold /\ ~seg.italic /\ ~seg.strike
    \/ seg.is_emoji /\ ~seg.code_block /\ ~seg.no_wrap

\* C11: the content of a fence is never read as inline markdown: every render
\* item made from the segment a closing fence returned holds only code_block
\* segments without bold, italic or strike, and demoted emoji segments.
C11_FenceContentVerbatim ==
    (pc = "lines" /\ Len(md_segments) = 1 /\ md_segments[1].code_block) =>
        \A k \in 1..Len(NewItems) :
            \A i \in 1..Len(ItemSegments(NewItems[k])) : IsFenceSegment(ItemSegments(NewItems[k])[i])

\* every way a marker pattern can match in text: pattern i, its opening
\* delimiter at s, its closing delimiter at e, at least one character between
C12_Matches(text) ==
    {m \in [i : 1..Len(INLINE_PATTERNS), s : 1..Len(text), e : 1..Len(text)] :
        /\ HasAt(text, m.s, INLINE_PATTERNS[m.i].delim)
        /\ HasAt(text, m.e, INLINE_PATTERNS[m.i].delim)
        /\ m.e > m.s + Len(INLINE_PATTERNS[m.i].delim)}

\* the match that starts earliest, of the marker that comes first in the
\* priority order, closed by the nearest closing delimiter
C12_First(matches) ==
    CHOOSE m \in matches : \A o \in matches :
        \/ m.s < o.s
        \/ m.s = o.s /\ m.i < o.i
        \/ m.s = o.s /\ m.i = o.i /\ m.e <= o.e

\* the marker's flag added to the flags a segment already has
C12_Flagged(segs, style) == [k \in 1..Len(segs) |-> [segs[k] EXCEPT ![style] = TRUE]]

RECURSIVE C12_Tokens(_)

C12_Around(text, m, d) ==
    (IF m.s > 1 THEN <<TextSegment(SubSeq(text, 1, m.s - 1))>> ELSE <<>>)
        \o C12_Flagged(C12_Tokens(SubSeq(text, m.s + Len(d), m.e - 1)), INLINE_PATTERNS[m.i].style)
        \o C12_Tokens(SubSeq(text, m.e + Len(d), Len(text)))

C12_At(text, m) == C12_Around(text, m, INLINE_PATTERNS[m.i].delim)

C12_Tokens(text) ==
    IF text = <<>> THEN <<>>
    ELSE IF C12_Matches(text) = {} THEN <<TextSegment(text)>>
    ELSE C12_At(text, C12_First(C12_Matches(text)))

\* C12: _parse_recursive takes, at each scan position, the earliest-starting
\* marker match of the remaining text (ties go to the marker that comes first
\* in the priority order), tokenizes the inner text recursively and adds the
\* marker's flag to every inner segment; bold around 'a ', italic 'b', ' c'
\* gives 'a ' (bold), 'b' (bold and italic), ' c' (bold).
C12_EarliestMatchNested ==
    pc = "recursive" =>
        /\ md_segments = C12_Tokens(line)
        /\ line = BoldAroundItalic =>
               md_segments = << [TextSegment(<<"a", " ">>) EXCEPT !.bold = TRUE],
                                [TextSegment(<<"b">>) EXCEPT !.bold = TRUE, !.italic = TRUE],
                                [TextSegment(<<" ", "c">>) EXCEPT !.bold = TRUE] >>

\* bold around italic has been tokenized into its three segments
C12_Witness ==
    /\ pc = "recursive" /\ line = BoldAroundItalic
    /\ Len(md_segments) = 3
    /\ md_segments[2].text = <<"b">> /\ md_segments[2].bold /\ md_segments[2].italic

\* the characters the delimiters of the inline patterns are made of
MarkerChars == {"*", "_", "~", BT}

\* out is what is left of text when some marker characters are taken out of
\* it: nothing else is dropped and nothing changes place
RECURSIVE MarkersRemoved(_, _)
MarkersRemoved(out, text) ==
    IF text = <<>> THEN out = <<>>
    ELSE \/ out # <<>> /\ Head(out) = Head(text) /\ MarkersRemoved(Tail(out), Tail(text))
         \/ Head(text) \in MarkerChars /\ MarkersRemoved(out, Tail(text))

\* C13 as stated: the texts of the segments _parse_inline_styles returns,
\* concatenated in order, are the input text.
C13_ConcatIsInput == pc = "inline" => SegmentsText(md_segments) = line

\* C13: the texts of the segments _parse_inline_styles returns, concatenated
\* in order, are the input text without the delimiters of the matched
\* markers: only marker characters are left out, nothing changes place, and
\* the concatenation is the input exactly when no marker matches.
C13_ConcatIsInputLessMarkers ==
    pc = "inline" =>
        /\ MarkersRemoved(SegmentsText(md_segments), line)
        /\ SegmentsText(md_segments) = line <=> C12_Matches(line) = {}

\* a text with a letter before an italic span has been tokenized: the letters
\* are kept, the two delimiters are gone
C13_Witness ==
    /\ pc = "inline" /\ line = <<"a", "*", "a", "*">>
    /\ SegmentsText(md_segments) = <<"a", "a">>

\* C14: the texts of the segments split_text returns, concatenated in order,
\* are the input text; every segment has a non-empty text; the empty text
\* gives the empty sequence.
C14_SplitKeepsText ==
    pc = "split" =>
        /\ SegmentsText(md_segments) = line
        /\ \A k \in 1..Len(md_segments) : md_segments[k].text # <<>>
        /\ line = <<>> => md_segments = <<>>

\* a letter and a run of four dashes have been split into two segments
C14_Witness ==
    /\ pc = "split" /\ line = <<"a", "-", "-", "-", "-">>
    /\ Len(md_segments) = 2 /\ md_segments[2].no_wrap
    /\ SegmentsText(md_segments) = line

\* a composite emoji: a base code point, a zero-width joiner, further emoji or
\* modifier code points (joined or not), a trailing variation selector
IsCompositeEmoji(text) ==
    /\ Len(text) >= 4
    /\ text[1] \in EmojiBaseChars /\ text[2] = ZWJ /\ text[3] \in EmojiBaseChars
    /\ \A i \in 4..(Len(text) - 1) : text[i] \in EmojiBaseChars \cup {ZWJ}
    /\ text[Len(text)] = VS16

\* C15: split_text returns a composite emoji as exactly one segment, an emoji
\* segment.
C15_CompositeEmojiOneSegment ==
    (pc = "split" /\ IsCompositeEmoji(line)) =>
        Len(md_segments) = 1 /\ md_segments[1].is_emoji

\* where segment k of segs starts in the concatenated text
SegmentStart(segs, k) == 1 + Len(SegmentsText(SubSeq(segs, 1, k - 1)))

\* text[a..b] is a maximal run of at least 3 equal separator characters
IsSeparatorRun(text, a, b) ==
    /\ b - a + 1 >= 3
    /\ text[a] \in SEPARATOR_CHARS
    /\ \A i \in a..b : text[i] = text[a]
    /\ a = 1 \/ text[a - 1] # text[a]
    /\ b = Len(text) \/ text[b + 1] # text[a]

\* segment k of the result covers a maximal separator run of the text
C16_CoversRun(segs, k, text) ==
    IsSeparatorRun(text, SegmentStart(segs, k), SegmentStart(segs, k) + Len(segs[k].text) - 1)

\* C16: in what split_text returns for a text without emoji, a segment is
\* atomic (no_wrap) if and only if it is a maximal run of at least 3 equal
\* characters of the separator set; 5 dashes are one atomic segment, 2 dashes
\* one plain segment.
C16_AtomicIffSeparatorRun ==
    (pc = "split" /\ \A i \in 1..Len(line) : line[i] \notin EmojiBaseChars) =>
        /\ \A k \in 1..Len(md_segments) : md_segments[k].no_wrap <=> C16_CoversRun(md_segments, k, line)
        /\ line = <<"-", "-", "-", "-", "-">> =>
               md_segments = <<[TextSegment(line) EXCEPT !.no_wrap = TRUE]>>
        /\ line = <<"-", "-">> => md_segments = <<TextSegment(line)>>

\* two dashes and three underscores have been split: only the underscores are atomic
C16_Witness ==
    /\ pc = "split" /\ line = MixedSeparators
    /\ Len(md_segments) = 2
    /\ ~md_segments[1].no_wrap /\ md_segments[2].no_wrap

\* a segment that is an emoji, atomic or an empty-text placeholder
IsKeptApart(seg) == seg.is_emoji \/ seg.no_wrap \/ seg.text = <<>>

\* two segments that differ in nothing but their text
SameButText(a, b) == [a EXCEPT !.text = <<>>] = [b EXCEPT !.text = <<>>]

\* no two neighbours of segs could have been merged
NoPairToMerge(segs) ==
    \A k \in 1..(Len(segs) - 1) :
        IsKeptApart(segs[k]) \/ IsKeptApart(segs[k + 1]) \/ ~SameButText(segs[k], segs[k + 1])

\* a step that is one _merge_segments call
IsMergeCall == pc \in {"segments", "recursive"} /\ pc' = "merged"

\* C17: what _parse_inline_styles and _merge_segments return has no two
\* neighbours that are both non-empty, non-emoji, non-atomic and equal in
\* every style, line and list attribute; _merge_segments leaves every emoji,
\* atomic and empty-text segment as it was, a segment of its own.
C17_MergedApartFromKept ==
    [][ /\ pc' \in {"inline", "merged"} => NoPairToMerge(md_segments')
        /\ IsMergeCall =>
               SelectSeq(md_segments', IsKeptApart) = SelectSeq(md_segments, IsKeptApart) ]_vars

\* two plain segments and an emoji have been merged into one plain segment
\* and the emoji
C17_Witness ==
    /\ pc = "merged" /\ Len(md_segments) = 2
    /\ md_segments[1] = TextSegment(<<"a", "a">>)
    /\ md_segments[2].is_emoji

\* effective_width of the logical line render has just laid out
EffectiveWidth ==
    _build_line_layout(BuildSegments(md_segments), text_area_width, min_content_width).effective_width

\* the sum of the measured widths of a physical line
LineWidth(item) == SumSeq([i \in 1..Len(item.segments) |-> item.segments[i].w])

\* a render item that is a physical line of text
IsTextItem(item) == ~item.is_empty /\ ~item.is_table /\ ~item.is_hr /\ Len(item.segments) > 0

\* the safety margin of the wrap tests
SafetyMargin == 2

\* C18: on every physical line the wrapping loop makes, the measured widths
\* add up to at most the effective width plus the safety margin, unless the
\* line holds one unit alone that is wider than the effective width.
C18_LineFitsWidth ==
    (pc = "lines" /\ n = 1) =>
        \A k \in 1..Len(NewItems) :
            IsTextItem(NewItems[k]) =>
                \/ LineWidth(NewItems[k]) <= EffectiveWidth + SafetyMargin
                \/ Len(NewItems[k].segments) = 1 /\ NewItems[k].segments[1].w > EffectiveWidth

\* every segment of a physical line has list_continuation = value
AllContinuation(item, value) ==
    \A i \in 1..Len(item.segments) : item.segments[i].seg.list_continuation = value

\* C19: when a list item wraps into several physical lines, every segment of
\* the first line has list_continuation = false and every segment of every
\* later line has list_continuation = true, so one line only paints the bullet.
C19_ContinuationAfterFirst ==
    (pc = "lines" /\ n = 1 /\ ListIsItem(BuildSegments(md_segments)) /\ Len(NewItems) >= 2) =>
        /\ AllContinuation(NewItems[1], FALSE)
        /\ \A k \in 2..Len(NewItems) : AllContinuation(NewItems[k], TRUE)
        /\ Cardinality({k \in 1..Len(NewItems) : PaintsBullet(NewItems[k])}) = 1

\* C20: no physical line that wrapping makes after the first line of a
\* logical line starts with a character of NO_LINE_START.
C20_NoPunctuationAtLineStart ==
    (pc = "lines" /\ n = 1) =>
        \A k \in 2..Len(NewItems) :
            IsTextItem(NewItems[k]) => NewItems[k].segments[1].seg.text[1] \notin NO_LINE_START

\* an emoji or a no_wrap segment of a physical line, with its measured width
IsAtomicUnit(entry) == entry.seg.is_emoji \/ entry.seg.no_wrap

\* C21: wrapping a line ends, whatever the width, and an atomic unit (emoji or
\* no_wrap segment) wider than the effective width is the only segment of its
\* physical line.
C21_OversizedUnitAlone ==
    (pc = "lines" /\ n = 1) =>
        \A k \in 1..Len(NewItems) :
            IsTextItem(NewItems[k]) =>
                \A i \in 1..Len(NewItems[k].segments) :
                    (IsAtomicUnit(NewItems[k].segments[i]) /\ NewItems[k].segments[i].w > EffectiveWidth)
                        => Len(NewItems[k].segments) = 1

\* the layout of the logical line render has just laid out
LineLayout == _build_line_layout(BuildSegments(md_segments), text_area_width, min_content_width)

\* C22: for every line, the clamped list indent, the bullet width and the
\* minimum content width together are at most the text-area width less the
\* quote offset.
C22_IndentBulletContentFit ==
    (pc = "lines" /\ n = 1 /\ Len(md_segments) > 0) =>
        LineLayout.list_indent + LineLayout.list_bullet_width + min_content_width
            <= text_area_width - LineLayout.quote_offset

\* the physical text lines among the render items
TextLines == {k \in 1..Len(render_items) : IsTextItem(render_items[k])}

\* the height of physical line k in the height pass and in the painting pass
CountedHeight(k) == LineHeightCounted(font_face, render_items[k].segments)
PaintedHeight(k) == LineHeightPainted(font_face, render_items[k].segments)

\* C23 as stated: every physical text line is at least line_pixel_height high,
\* in the height pass and in the painting pass.
C23_NeverBelowBase ==
    pc = "done" =>
        \A k \in TextLines : CountedHeight(k) >= line_pixel_height /\ PaintedHeight(k) >= line_pixel_height

\* C23: every physical text line that is not a line of a code block is at
\* least line_pixel_height high in the height pass and in the painting pass (a
\* heading or an emoji can only raise it); a line of a code block is
\* int(line_pixel_height * 0.8) high in both.
C23_NeverBelowBaseButCode ==
    pc = "done" =>
        \A k \in TextLines :
            IF IsCodeLine(render_items[k].segments)
            THEN CountedHeight(k) = CompactHeight /\ PaintedHeight(k) = CompactHeight
            ELSE CountedHeight(k) >= line_pixel_height /\ PaintedHeight(k) >= line_pixel_height

\* a text with a line of a code block, and a level-6 heading whose font is
\* smaller than the base font and whose line keeps the base height
C23_Witness ==
    /\ pc = "done" /\ font_face = "tall"
    /\ \E k \in TextLines : IsCodeLine(render_items[k].segments)
    /\ \E k \in TextLines :
          /\ render_items[k].segments[1].seg.heading = 6
          /\ CountedHeight(k) = line_pixel_height /\ PaintedHeight(k) = line_pixel_height

\* the physical lines that hold a level-1 heading segment and an emoji segment
HeadingEmojiLines ==
    {k \in TextLines :
        /\ \E i \in 1..Len(render_items[k].segments) : render_items[k].segments[i].seg.heading = 1
        /\ \E i \in 1..Len(render_items[k].segments) : render_items[k].segments[i].seg.is_emoji}

\* the taller of the level-1 heading font and the emoji
HeadingOrEmoji == Max(_get_font_height(font_face, HeadingSize(1)), emoji_size)

IsEmojiCall == pc = "emoji" /\ n' = n + 1

\* the call's handler has a failure recorded for the call's emoji
CallAfterFailure == _failed[returned'.handler][returned'.emoji] # NoFailure

\* the call is made less than failed_ttl after the recorded failure
CallBeforeExpiry == clock - _failed[returned'.handler][returned'.emoji] < failed_ttl

\* the call's cache key is in its handler's memory cache, in the cache directory
CallKeyInMemory == CacheKey(returned'.emoji, returned'.size) \in _cache[returned'.handler]
CallKeyOnDisk == CacheKey(returned'.emoji, returned'.size) \in disk

\* the call returns None and opens no URL
CallSuppressed == ~returned'.image /\ ~returned'.requested

\* the call leaves the emoji's old failure record behind: the record is gone,
\* or it is the record of a new failure, made now
CallDropsRecord ==
    \/ _failed'[returned'.handler][returned'.emoji] = NoFailure
    \/ /\ _failed'[returned'.handler][returned'.emoji] = clock
       /\ returned'.requested
       /\ ~returned'.image

C26_DiskFileAlwaysServed ==
    [][(IsEmojiCall /\ CallKeyOnDisk) => (returned'.image /\ ~returned'.requested)]_vars

\* C27: output follows input order: when a call made with a table open emits
\* anything, the line it reads comes after the table's last row, so what it
\* emits starts with the flattened table and the table is closed; this holds
\* too when the lines after the table are a fenced block.
C27_TableBeforeLaterLines ==
    [][ (IsParseCall /\ ctx.in_table /\ Len(md_segments') > 0) =>
            /\ ~ctx'.in_table
            /\ Len(md_segments') >= Len(_serialize_table(ctx))
            /\ SubSeq(md_segments', 1, Len(_serialize_table(ctx))) = _serialize_table(ctx) ]_vars

\* C28: table state never leaks between tables: whenever no table is open the
\* row buffer is empty and table_header_parsed is false (so the first row of
\* the next table is flagged is_header).
C28_NoTableStateLeft ==
    ~ctx.in_table => (ctx.table_rows = <<>> /\ ~ctx.table_header_parsed)

\* the line of this turn is consumed by a fence: it opens one, or it is
\* buffered inside one
ConsumedByFence ==
    /\ Len(line') > 0
    /\ md_segments' = <<>>
    /\ IF ctx.in_code_block THEN ~IsClosingFence(line') ELSE CodeBlockMatch(line')

\* C29: the opening fence line and every line buffered inside a fence add
\* nothing to the page: the turn of render's line loop that reads such a line
\* appends no render item.
C29_FenceLinesAddNothing ==
    [][ (IsRenderLine /\ ConsumedByFence) => (added' = 0 /\ render_items' = render_items) ]_vars

\* C30: the two passes of render agree: once both have run over the render
\* items (text lines, blank lines, rules, tables, code lines, lines with
\* headings or emoji), the y the painting pass ends at is the padding plus the
\* total height the height pass added up.
C30_PassesAgree == pc = "done" => y = real_padding + total_height

\* both passes have run over a table, a blank line and a line raised by a
\* heading with an emoji
C30_Witness ==
    /\ pc = "done"
    /\ y = real_padding + total_height
    /\ \E k \in 1..Len(render_items) : render_items[k].is_table
    /\ \E k \in 1..Len(render_items) : render_items[k].is_empty
    /\ \E k \in HeadingEmojiLines : PaintedHeight(k) > line_pixel_height

====
